---- MODULE Spec2Model ----
(***************************************************************************)
(* Model of runpod_handler.py: the module-level start-up (construction of  *)
(* the TTS pipeline, registration of the handler with the serverless host) *)
(* and the handler itself, one action per statement of the handler.        *)
(*                                                                         *)
(* Python values are records tagged by "kind"; text is a sequence of       *)
(* one-character strings, bytes a sequence of integers 0..255.             *)
(***************************************************************************)
EXTENDS Integers, Sequences, FiniteSets, TLC

(* ------------------------------ bounds --------------------------------- *)
\* longest speaker_wav_base64 string the host delivers
MaxLen == 4
\* longest byte string pipeline.tts returns
MaxWav == 2
\* number of jobs the host delivers in one process run
MaxJobs == 2
\* number of handler invocations the host may have in flight (SpecConc)
NumWorkers == 2

Workers == 1..NumWorkers

(* --------------------------- Python values ----------------------------- *)
None == [kind |-> "none"]
Unbound == [kind |-> "unbound"]
Str(chars) == [kind |-> "str", s |-> chars]
Bytes(octets) == [kind |-> "bytes", b |-> octets]
PyInt(n) == [kind |-> "int", n |-> n]
PyBool(t) == [kind |-> "bool", t |-> t]

\* all sequences over S of length at most n
RECURSIVE SeqsUpTo(_, _)
SeqsUpTo(S, n) ==
    IF n = 0 THEN {<<>>}
    ELSE LET shorter == SeqsUpTo(S, n - 1)
         IN  shorter \cup {Append(q, c) : q \in {r \in shorter : Len(r) = n - 1}, c \in S}

(* ------------------------------ base64 --------------------------------- *)
\* the standard base64 alphabet, value v at position v + 1
Alphabet ==
    << "A","B","C","D","E","F","G","H","I","J","K","L","M","N","O","P",
       "Q","R","S","T","U","V","W","X","Y","Z","a","b","c","d","e","f",
       "g","h","i","j","k","l","m","n","o","p","q","r","s","t","u","v",
       "w","x","y","z","0","1","2","3","4","5","6","7","8","9","+","/" >>

AlphabetChars == {Alphabet[k] : k \in 1..64}

\* stands for every character outside ASCII
NonAscii == "é"

\* table_a2b_base64: the 6-bit value of an alphabet character
B64Value(c) == (CHOOSE k \in 1..64 : Alphabet[k] = c) - 1

\* binascii.a2b_base64 in non-strict mode: one pass over the characters,
\* skipping everything outside the alphabet, stopping at a completing pad
\* sequence; quad_pos is the position in the current 4-character quantum.
RECURSIVE a2b_base64(_, _, _, _, _, _)
a2b_base64(s, i, quad_pos, pads, leftchar, out) ==
    IF i > Len(s)
    THEN IF quad_pos # 0
         THEN [ok |-> FALSE, exc |-> "binascii.Error"]
         ELSE [ok |-> TRUE, val |-> Bytes(out)]
    ELSE LET c == s[i] IN
         IF c = "="
         THEN IF quad_pos >= 2 /\ quad_pos + pads + 1 >= 4
              THEN [ok |-> TRUE, val |-> Bytes(out)]
              ELSE a2b_base64(s, i + 1, quad_pos,
                              IF quad_pos >= 2 THEN pads + 1 ELSE pads,
                              leftchar, out)
         ELSE IF c \notin AlphabetChars
         THEN a2b_base64(s, i + 1, quad_pos, pads, leftchar, out)
         ELSE LET v == B64Value(c) IN
              CASE quad_pos = 0 -> a2b_base64(s, i + 1, 1, 0, v, out)
                [] quad_pos = 1 ->
                     a2b_base64(s, i + 1, 2, 0, v % 16,
                                Append(out, (leftchar * 4) + (v \div 16)))
                [] quad_pos = 2 ->
                     a2b_base64(s, i + 1, 3, 0, v % 4,
                                Append(out, (leftchar * 16) + (v \div 4)))
                [] quad_pos = 3 ->
                     a2b_base64(s, i + 1, 0, 0, 0,
                                Append(out, (leftchar * 64) + v))

\* base64.b64decode(s) with the default validate=False: a str must be ASCII,
\* bytes are taken as they are, anything else is a TypeError.
b64decode(v) ==
    IF v.kind = "str"
    THEN IF \E k \in 1..Len(v.s) : v.s[k] = NonAscii
         THEN [ok |-> FALSE, exc |-> "ValueError"]
         ELSE a2b_base64(v.s, 1, 0, 0, 0, <<>>)
    ELSE [ok |-> FALSE, exc |-> "TypeError"]

\* the '=' characters closing a final group of n octets (n = 1 or 2)
Padding(n) == IF n = 1 THEN <<"=", "=">> ELSE <<"=">>

\* table_b2a_base64: the alphabet character of a 6-bit value
B64Char(v) == Alphabet[v + 1]

\* binascii.b2a_base64(newline=False): three octets become four characters,
\* a final group of one or two octets is padded with '='.
RECURSIVE b2a_base64(_)
b2a_base64(b) ==
    IF Len(b) = 0 THEN <<>>
    ELSE IF Len(b) = 1
    THEN << B64Char(b[1] \div 4), B64Char((b[1] % 4) * 16) >> \o Padding(1)
    ELSE IF Len(b) = 2
    THEN << B64Char(b[1] \div 4),
            B64Char(((b[1] % 4) * 16) + (b[2] \div 16)),
            B64Char((b[2] % 16) * 4) >> \o Padding(2)
    ELSE << B64Char(b[1] \div 4),
            B64Char(((b[1] % 4) * 16) + (b[2] \div 16)),
            B64Char(((b[2] % 16) * 4) + (b[3] \div 64)),
            B64Char(b[3] % 64) >> \o b2a_base64(SubSeq(b, 4, Len(b)))

\* an encoder that leaves the '=' padding out
b64encodeUnpadded(v) == Str(SelectSeq(b2a_base64(v.b), LAMBDA c : c # "="))

\* base64.b64encode(wav_bytes).decode('utf-8')
b64encode(v) == Str(b2a_base64(v.b))

(* ------------------------- the host's inputs --------------------------- *)
\* dict.get(key, default)
Get(d, key, default) == IF key \in DOMAIN d THEN d[key] ELSE default

Absent == [kind |-> "absent"]

\* the mapping job['input'] with the keys that are present
MkInput(t, s) ==
    LET empty == [k \in {} |-> None]
        withText == IF t = Absent THEN empty ELSE [text |-> t]
    IN  IF s = Absent THEN withText ELSE withText @@ [speaker_wav_base64 |-> s]

SpeakerChars == {"Q", "U", "=", "!"}

\* the JSON values tried for speaker_wav_base64: null, false, 0, a number,
\* every string over SpeakerChars, and strings with a non-ASCII character
SpeakerValues ==
    {None, PyBool(FALSE), PyInt(0), PyInt(5),
     Str(<<NonAscii>>), Str(<<"Q", "Q", NonAscii>>)}
    \cup {Str(s) : s \in SeqsUpTo(SpeakerChars, MaxLen)}

TextValues == {None, Str(<<>>), Str(<<"T", "e", "s", "t">>)}

Jobs ==
    {[input |-> MkInput(t, s)] :
        t \in TextValues \cup {Absent}, s \in SpeakerValues \cup {Absent}}

\* the jobs delivered when several invocations are in flight
ConcJobs ==
    {[input |-> MkInput(t, s)] :
        t \in {Absent, Str(<<"T", "e", "s", "t">>)},
        s \in {Absent, Str(<<"Q", "Q">>), Str(<<"Q", "Q", "=", "=">>),
               Str(<<"Q", "Q", "Q", "=">>)}}

\* what pipeline.tts may return: raw audio bytes
TtsResults == {Bytes(b) : b \in SeqsUpTo({65, 255}, MaxWav)}

ConcTtsResults == {r \in TtsResults : Len(r.b) <= 1}

(* ------------------------------- state --------------------------------- *)
VARIABLES
    modpc,               \* position in the module-level code
    pipeline,            \* the module global: "Uninitialized" or "Ready"
    constructions,       \* calls of KokoroV1Pipeline(...) so far
    accepted,            \* jobs the host has handed to the handler
    pc,                  \* per invocation: position in handler
    job,                 \* per invocation: the argument
    job_input, text, speaker_wav_base64,
    speaker_wav_bytes, wav_bytes, wav_base64,   \* handler's locals
    response,            \* per invocation: the returned mapping
    raised,              \* per invocation: the exception leaving handler
    ttsCalls,            \* per invocation: the calls of pipeline.tts made
    trace                \* per invocation: the statements executed

locals == <<job_input, text, speaker_wav_base64, speaker_wav_bytes, wav_bytes, wav_base64>>
modvars == <<modpc, pipeline, constructions>>
vars == <<modpc, pipeline, constructions, accepted, pc, job, job_input, text,
          speaker_wav_base64, speaker_wav_bytes, wav_bytes, wav_base64,
          response, raised, ttsCalls, trace>>

Init ==
    /\ modpc = "line8"
    /\ pipeline = "Uninitialized"
    /\ constructions = 0
    /\ accepted = 0
    /\ pc = [i \in Workers |-> "idle"]
    /\ job = [i \in Workers |-> Unbound]
    /\ job_input = [i \in Workers |-> Unbound]
    /\ text = [i \in Workers |-> Unbound]
    /\ speaker_wav_base64 = [i \in Workers |-> Unbound]
    /\ speaker_wav_bytes = [i \in Workers |-> Unbound]
    /\ wav_bytes = [i \in Workers |-> Unbound]
    /\ wav_base64 = [i \in Workers |-> Unbound]
    /\ response = [i \in Workers |-> Unbound]
    /\ raised = [i \in Workers |-> "none"]
    /\ ttsCalls = [i \in Workers |-> <<>>]
    /\ trace = [i \in Workers |-> <<>>]

(* ------------------------- module-level code --------------------------- *)
\* pipeline = KokoroV1Pipeline(use_gpu=True); an exception ends the process
ConstructPipeline(ok) ==
    /\ modpc = "line8"
    /\ constructions' = constructions + 1
    /\ IF ok
       THEN pipeline' = "Ready" /\ modpc' = "line9"
       ELSE pipeline' = pipeline /\ modpc' = "crashed"
    /\ UNCHANGED <<accepted, pc, job, locals, response, raised, ttsCalls, trace>>

\* print("TTS Pipeline Initialized.")
PrintInitialized ==
    /\ modpc = "line9"
    /\ modpc' = "line38"
    /\ UNCHANGED <<pipeline, constructions, accepted, pc, job, locals, response,
                   raised, ttsCalls, trace>>

\* runpod.serverless.start({"handler": handler})
StartWorker ==
    /\ modpc = "line38"
    /\ modpc' = "serving"
    /\ UNCHANGED <<pipeline, constructions, accepted, pc, job, locals, response,
                   raised, ttsCalls, trace>>

(* ------------------------------ handler -------------------------------- *)
\* a check `speaker_wav_base64 is None` in place of `not speaker_wav_base64`
FalsyNoneOnly(v) == v.kind = "none"

\* Python truthiness: `not v`
Falsy(v) ==
    CASE v.kind = "none" -> TRUE
      [] v.kind = "bool" -> ~v.t
      [] v.kind = "int" -> v.n = 0
      [] v.kind = "str" -> v.s = <<>>
      [] v.kind = "bytes" -> v.b = <<>>
      [] OTHER -> FALSE

\* 'Hello, this is a test.'
DefaultText ==
    Str(<< "H","e","l","l","o",","," ","t","h","i","s"," ","i","s"," ",
           "a"," ","t","e","s","t","." >>)

\* job_input.get('text'): the default left out
GetTextNoDefault(input) == Get(input, "text", None)

\* job_input.get('text') or 'Hello, this is a test.'
GetTextOrDefault(input) ==
    IF "text" \in DOMAIN input /\ ~Falsy(input["text"]) THEN input["text"] ELSE DefaultText

\* job_input.get('text', 'Hello, this is a test.')
GetText(input) == Get(input, "text", DefaultText)

\* job_input.get('speaker_wav_base64')
GetSpeaker(input) == Get(input, "speaker_wav_base64", None)

\* {"error": "speaker_wav_base64 is a required field."}
ErrorResponse == [error |-> "speaker_wav_base64 is a required field."]

\* a success mapping that also carries an error key
AudioResponseWithError(encoded) == [audio_base64 |-> encoded, error |-> None]

\* {"audio_base64": wav_base64}
AudioResponse(encoded) == [audio_base64 |-> encoded]

\* the outcome of pipeline.tts that is an exception
TtsFailure == [kind |-> "raise"]

Busy == {k \in Workers : pc[k] # "idle"}

\* The host calls handler(job) with one of `jobs`; at most `inflight`
\* invocations run at once.
Invoke(i, jobs, inflight) ==
    /\ modpc = "serving"
    /\ pc[i] = "idle"
    /\ accepted < MaxJobs
    /\ Cardinality(Busy) < inflight
    /\ accepted' = accepted + 1
    /\ \E j \in jobs : job' = [job EXCEPT ![i] = j]
    /\ pc' = [pc EXCEPT ![i] = "line15"]
    /\ UNCHANGED <<modvars, locals, response, raised, ttsCalls, trace>>

\* job_input = job['input']; text = ...; speaker_wav_base64 = ...
Extract(i) ==
    /\ pc[i] = "line15"
    /\ job_input' = [job_input EXCEPT ![i] = job[i].input]
    /\ text' = [text EXCEPT ![i] = GetText(job[i].input)]
    /\ speaker_wav_base64' = [speaker_wav_base64 EXCEPT ![i] = GetSpeaker(job[i].input)]
    /\ trace' = [trace EXCEPT ![i] = Append(@, "extract")]
    /\ pc' = [pc EXCEPT ![i] = "line20"]
    /\ UNCHANGED <<modvars, accepted, job, speaker_wav_bytes, wav_bytes, wav_base64,
                   response, raised, ttsCalls>>

\* the check with its `return` forgotten: the error mapping is built and
\* dropped, and the handler goes on
ValidateNoReturn(i) ==
    /\ pc[i] = "line20"
    /\ trace' = [trace EXCEPT ![i] = Append(@, "validate")]
    /\ pc' = [pc EXCEPT ![i] = "line24"]
    /\ UNCHANGED <<modvars, accepted, job, locals, response, raised, ttsCalls>>

\* if not speaker_wav_base64: return {"error": ...}
Validate(i) ==
    /\ pc[i] = "line20"
    /\ trace' = [trace EXCEPT ![i] = Append(@, "validate")]
    /\ IF Falsy(speaker_wav_base64[i])
       THEN /\ response' = [response EXCEPT ![i] = ErrorResponse]
            /\ pc' = [pc EXCEPT ![i] = "returned"]
       ELSE /\ response' = response
            /\ pc' = [pc EXCEPT ![i] = "line24"]
    /\ UNCHANGED <<modvars, accepted, job, locals, raised, ttsCalls>>

\* the decode wrapped in try/except, a failure turned into the error mapping
DecodeCaught(i) ==
    /\ pc[i] = "line24"
    /\ trace' = [trace EXCEPT ![i] = Append(@, "decode")]
    /\ LET d == b64decode(speaker_wav_base64[i]) IN
       IF d.ok
       THEN /\ speaker_wav_bytes' = [speaker_wav_bytes EXCEPT ![i] = d.val]
            /\ pc' = [pc EXCEPT ![i] = "line28"]
            /\ response' = response
       ELSE /\ speaker_wav_bytes' = speaker_wav_bytes
            /\ pc' = [pc EXCEPT ![i] = "returned"]
            /\ response' = [response EXCEPT ![i] = ErrorResponse]
    /\ UNCHANGED <<modvars, accepted, job, job_input, text, speaker_wav_base64,
                   wav_bytes, wav_base64, raised, ttsCalls>>

\* speaker_wav_bytes kept in a module global: every invocation sees the
\* value written last
DecodeShared(i) ==
    /\ pc[i] = "line24"
    /\ trace' = [trace EXCEPT ![i] = Append(@, "decode")]
    /\ LET d == b64decode(speaker_wav_base64[i]) IN
       IF d.ok
       THEN /\ speaker_wav_bytes' = [k \in Workers |-> d.val]
            /\ pc' = [pc EXCEPT ![i] = "line28"]
            /\ raised' = raised
       ELSE /\ speaker_wav_bytes' = speaker_wav_bytes
            /\ pc' = [pc EXCEPT ![i] = "raised"]
            /\ raised' = [raised EXCEPT ![i] = d.exc]
    /\ UNCHANGED <<modvars, accepted, job, job_input, text, speaker_wav_base64,
                   wav_bytes, wav_base64, response, ttsCalls>>

\* speaker_wav_bytes = base64.b64decode(speaker_wav_base64), no try/except
Decode(i) ==
    /\ pc[i] = "line24"
    /\ trace' = [trace EXCEPT ![i] = Append(@, "decode")]
    /\ LET d == b64decode(speaker_wav_base64[i]) IN
       IF d.ok
       THEN /\ speaker_wav_bytes' = [speaker_wav_bytes EXCEPT ![i] = d.val]
            /\ pc' = [pc EXCEPT ![i] = "line28"]
            /\ raised' = raised
       ELSE /\ speaker_wav_bytes' = speaker_wav_bytes
            /\ pc' = [pc EXCEPT ![i] = "raised"]
            /\ raised' = [raised EXCEPT ![i] = d.exc]
    /\ UNCHANGED <<modvars, accepted, job, job_input, text, speaker_wav_base64,
                   wav_bytes, wav_base64, response, ttsCalls>>

\* the pipeline constructed inside handler, once per job
CallTtsReload(i, r) ==
    /\ pc[i] = "line28"
    /\ constructions' = constructions + 1
    /\ pipeline' = "Ready"
    /\ modpc' = modpc
    /\ trace' = [trace EXCEPT ![i] = Append(@, "tts")]
    /\ ttsCalls' = [ttsCalls EXCEPT ![i] =
                      Append(@, [text |-> text[i], speaker_wav |-> speaker_wav_bytes[i],
                                 result |-> r])]
    /\ IF r = TtsFailure
       THEN /\ wav_bytes' = wav_bytes
            /\ pc' = [pc EXCEPT ![i] = "raised"]
            /\ raised' = [raised EXCEPT ![i] = "TtsError"]
       ELSE /\ wav_bytes' = [wav_bytes EXCEPT ![i] = r]
            /\ pc' = [pc EXCEPT ![i] = "line31"]
            /\ raised' = raised
    /\ UNCHANGED <<accepted, job, job_input, text, speaker_wav_base64,
                   speaker_wav_bytes, wav_base64, response>>

\* a failing call tried once more before the exception is let through
CallTtsRetry(i, r) ==
    /\ pc[i] = "line28"
    /\ pipeline = "Ready"
    /\ trace' = [trace EXCEPT ![i] = Append(@, "tts")]
    /\ ttsCalls' = [ttsCalls EXCEPT ![i] =
                      Append(@, [text |-> text[i], speaker_wav |-> speaker_wav_bytes[i],
                                 result |-> r])]
    /\ IF r = TtsFailure
       THEN /\ wav_bytes' = wav_bytes
            /\ IF ttsCalls[i] = <<>>
               THEN pc' = pc /\ raised' = raised
               ELSE /\ pc' = [pc EXCEPT ![i] = "raised"]
                    /\ raised' = [raised EXCEPT ![i] = "TtsError"]
       ELSE /\ wav_bytes' = [wav_bytes EXCEPT ![i] = r]
            /\ pc' = [pc EXCEPT ![i] = "line31"]
            /\ raised' = raised
    /\ UNCHANGED <<modvars, accepted, job, job_input, text, speaker_wav_base64,
                   speaker_wav_bytes, wav_base64, response>>

\* wav_bytes = pipeline.tts(text=text, speaker_wav=speaker_wav_bytes); the
\* call uses the module global and either returns r or raises
CallTts(i, r) ==
    /\ pc[i] = "line28"
    /\ pipeline = "Ready"
    /\ trace' = [trace EXCEPT ![i] = Append(@, "tts")]
    /\ ttsCalls' = [ttsCalls EXCEPT ![i] =
                      Append(@, [text |-> text[i], speaker_wav |-> speaker_wav_bytes[i],
                                 result |-> r])]
    /\ IF r = TtsFailure
       THEN /\ wav_bytes' = wav_bytes
            /\ pc' = [pc EXCEPT ![i] = "raised"]
            /\ raised' = [raised EXCEPT ![i] = "TtsError"]
       ELSE /\ wav_bytes' = [wav_bytes EXCEPT ![i] = r]
            /\ pc' = [pc EXCEPT ![i] = "line31"]
            /\ raised' = raised
    /\ UNCHANGED <<modvars, accepted, job, job_input, text, speaker_wav_base64,
                   speaker_wav_bytes, wav_base64, response>>

\* wav_base64 = base64.b64encode(wav_bytes).decode('utf-8')
Encode(i) ==
    /\ pc[i] = "line31"
    /\ trace' = [trace EXCEPT ![i] = Append(@, "encode")]
    /\ wav_base64' = [wav_base64 EXCEPT ![i] = b64encode(wav_bytes[i])]
    /\ pc' = [pc EXCEPT ![i] = "line33"]
    /\ UNCHANGED <<modvars, accepted, job, job_input, text, speaker_wav_base64,
                   speaker_wav_bytes, wav_bytes, response, raised, ttsCalls>>

\* return {"audio_base64": wav_base64}
ReturnAudio(i) ==
    /\ pc[i] = "line33"
    /\ trace' = [trace EXCEPT ![i] = Append(@, "return")]
    /\ response' = [response EXCEPT ![i] = AudioResponse(wav_base64[i])]
    /\ pc' = [pc EXCEPT ![i] = "returned"]
    /\ UNCHANGED <<modvars, accepted, job, locals, raised, ttsCalls>>

\* The host takes the return value or the exception; the frame of the
\* invocation is gone.
Deliver(i) ==
    /\ pc[i] \in {"returned", "raised"}
    /\ pc' = [pc EXCEPT ![i] = "idle"]
    /\ job' = [job EXCEPT ![i] = Unbound]
    /\ job_input' = [job_input EXCEPT ![i] = Unbound]
    /\ text' = [text EXCEPT ![i] = Unbound]
    /\ speaker_wav_base64' = [speaker_wav_base64 EXCEPT ![i] = Unbound]
    /\ speaker_wav_bytes' = [speaker_wav_bytes EXCEPT ![i] = Unbound]
    /\ wav_bytes' = [wav_bytes EXCEPT ![i] = Unbound]
    /\ wav_base64' = [wav_base64 EXCEPT ![i] = Unbound]
    /\ response' = [response EXCEPT ![i] = Unbound]
    /\ raised' = [raised EXCEPT ![i] = "none"]
    /\ ttsCalls' = [ttsCalls EXCEPT ![i] = <<>>]
    /\ trace' = [trace EXCEPT ![i] = <<>>]
    /\ UNCHANGED <<modvars, accepted>>

(* --------------------------- specifications ---------------------------- *)
\* runpod.serverless.start is given no concurrency_modifier: the host runs
\* one job at a time, so one frame of handler (the first) is ever in use.
Next ==
    \/ \E ok \in BOOLEAN : ConstructPipeline(ok)
    \/ PrintInitialized
    \/ StartWorker
    \/ Invoke(1, Jobs, 1)
    \/ \E i \in Workers : Extract(i)
    \/ \E i \in Workers : Validate(i)
    \/ \E i \in Workers : Decode(i)
    \/ \E i \in Workers, r \in TtsResults \cup {TtsFailure} : CallTts(i, r)
    \/ \E i \in Workers : Encode(i)
    \/ \E i \in Workers : ReturnAudio(i)
    \/ \E i \in Workers : Deliver(i)

Spec == Init /\ [][Next]_vars

\* A host that keeps up to NumWorkers invocations in flight, interleaved
\* statement by statement.
NextConc ==
    \/ \E ok \in BOOLEAN : ConstructPipeline(ok)
    \/ PrintInitialized
    \/ StartWorker
    \/ \E i \in Workers : Invoke(i, ConcJobs, NumWorkers)
    \/ \E i \in Workers : Extract(i)
    \/ \E i \in Workers : Validate(i)
    \/ \E i \in Workers : Decode(i)
    \/ \E i \in Workers, r \in ConcTtsResults \cup {TtsFailure} : CallTts(i, r)
    \/ \E i \in Workers : Encode(i)
    \/ \E i \in Workers : ReturnAudio(i)
    \/ \E i \in Workers : Deliver(i)

SpecConc == Init /\ [][NextConc]_vars

(* ------------------- notions the properties are about ------------------ *)
Finished(i) == pc[i] \in {"returned", "raised"}

HasSpeaker(j) == "speaker_wav_base64" \in DOMAIN j.input
HasText(j) == "text" \in DOMAIN j.input

\* the values of speaker_wav_base64 that count as empty
EmptyValues == {None, PyBool(FALSE), PyInt(0), Str(<<>>)}

SpeakerMissing(j) ==
    \/ ~HasSpeaker(j)
    \/ HasSpeaker(j) /\ j.input.speaker_wav_base64 \in EmptyValues

\* the placeholder sentence, written out
PlaceholderSentence ==
    Str(<< "H","e","l","l","o",","," ","t","h","i","s"," ","i","s"," ",
           "a"," ","t","e","s","t","." >>)

RequiredFieldError == [error |-> "speaker_wav_base64 is a required field."]

\* audio bytes whose encodings are among the speaker values delivered: the
\* octets that groups of the characters Q and U stand for
ReferenceAudio ==
    {b \in SeqsUpTo({65, 81, 4, 5, 68, 69, 16, 20}, 3) : b # <<>>}

\* valid encoded text in the strict sense: alphabet characters only, whole
\* 4-character groups, at most two '=' and only at the very end
ValidEncodedText(s) ==
    /\ Len(s) % 4 = 0
    /\ \A k \in 1..Len(s) : s[k] \in AlphabetChars \cup {"="}
    /\ \A k \in 1..Len(s) : s[k] = "=" => k >= Len(s) - 1
    /\ \A k \in 1..Len(s) : (s[k] = "=" /\ k < Len(s)) => s[k + 1] = "="

AlphaBefore(s, i) == Cardinality({k \in 1..(i - 1) : s[k] \in AlphabetChars})

\* the '=' up to position i since the last alphabet character
PadRun(s, i) ==
    Cardinality({k \in 1..i : s[k] = "=" /\ \A m \in k..i : s[m] \notin AlphabetChars})

\* the '=' at position i completes a group of two or three alphabet characters
CompletesGroup(s, i) ==
    /\ s[i] = "="
    /\ \/ AlphaBefore(s, i) % 4 = 3
       \/ AlphaBefore(s, i) % 4 = 2 /\ PadRun(s, i) >= 2

\* the alphabet characters of s end inside a group that no padding completes
IncorrectPadding(s) ==
    /\ \A i \in 1..Len(s) : ~CompletesGroup(s, i)
    /\ AlphaBefore(s, Len(s) + 1) % 4 # 0

\* the speaker values the lenient decoder rejects
Rejected(v) ==
    \/ v.kind # "str"
    \/ v.kind = "str" /\ \E k \in 1..Len(v.s) : v.s[k] = NonAscii
    \/ v.kind = "str" /\ IncorrectPadding(v.s)

\* what decoding the job's own speaker_wav_base64 gives
OwnDecode(j) ==
    IF j # Unbound /\ HasSpeaker(j)
    THEN b64decode(j.input.speaker_wav_base64)
    ELSE [ok |-> FALSE, exc |-> "no speaker"]

(* ------------------------------ properties ----------------------------- *)
\* C1: a finished invocation whose job has no speaker_wav_base64, or an
\* empty/falsy one, has returned exactly the one-key mapping
\* {"error": "speaker_wav_base64 is a required field."}, whatever text is.
C1_MissingSpeakerGivesError ==
    \A i \in Workers :
        (Finished(i) /\ SpeakerMissing(job[i])) =>
            /\ pc[i] = "returned"
            /\ raised[i] = "none"
            /\ response[i] = RequiredFieldError

C1_Witness ==
    \E i \in Workers :
        /\ pc[i] = "returned"
        /\ HasSpeaker(job[i]) /\ job[i].input.speaker_wav_base64 = Str(<<>>)
        /\ HasText(job[i]) /\ job[i].input.text = Str(<<"T", "e", "s", "t">>)
        /\ response[i] = RequiredFieldError

\* C2: decode and pipeline.tts run only for a job with a non-empty
\* speaker_wav_base64, and only after the validation check of that job.
C2_NoSynthesisWithoutSpeaker ==
    \A i \in Workers :
        /\ ttsCalls[i] # <<>> => ~SpeakerMissing(job[i])
        /\ \A k \in 1..Len(trace[i]) :
              trace[i][k] \in {"decode", "tts"} =>
                  /\ ~SpeakerMissing(job[i])
                  /\ \E m \in 1..(k - 1) : trace[i][m] = "validate"
        /\ \A k \in 1..Len(trace[i]) :
              trace[i][k] = "tts" => \E m \in 1..(k - 1) : trace[i][m] = "decode"

C2_Witness ==
    \E i \in Workers :
        /\ pc[i] = "returned"
        /\ trace[i] = <<"extract", "validate", "decode", "tts", "encode", "return">>
        /\ job[i].input.speaker_wav_base64 = Str(<<"Q", "Q", "=", "=">>)

\* C3: when speaker_wav_base64 is the encoding of audio bytes B and
\* pipeline.tts returns r, the one call made was tts(effective text, B) and
\* the return value is exactly {"audio_base64": E} with E decoding to r.
C3_SuccessRoundTrip ==
    \A i \in Workers :
        (pc[i] = "returned" /\ HasSpeaker(job[i])) =>
            \A B \in ReferenceAudio :
                job[i].input.speaker_wav_base64 = Str(b2a_base64(B)) =>
                    /\ Len(ttsCalls[i]) = 1
                    /\ ttsCalls[i][1].speaker_wav = Bytes(B)
                    /\ ttsCalls[i][1].text =
                          (IF HasText(job[i]) THEN job[i].input.text
                           ELSE PlaceholderSentence)
                    /\ DOMAIN response[i] = {"audio_base64"}
                    /\ response[i].audio_base64.kind = "str"
                    /\ b64decode(response[i].audio_base64) =
                          [ok |-> TRUE, val |-> ttsCalls[i][1].result]

C3_Witness ==
    \E i \in Workers :
        /\ pc[i] = "returned"
        /\ HasSpeaker(job[i])
        /\ job[i].input.speaker_wav_base64 = Str(<<"Q", "U", "U", "=">>)
        /\ <<65, 69>> \in ReferenceAudio
        /\ ttsCalls[i] # <<>>
        /\ ttsCalls[i][1].speaker_wav = Bytes(<<65, 69>>)
        /\ ttsCalls[i][1].result = Bytes(<<255, 65>>)
        /\ response[i] = [audio_base64 |-> Str(<<"/", "0", "E", "=">>)]

\* C4: every call of pipeline.tts for a job without a text key passes
\* 'Hello, this is a test.' as text.
C4_DefaultTextWhenAbsent ==
    \A i \in Workers : \A k \in 1..Len(ttsCalls[i]) :
        ~HasText(job[i]) => ttsCalls[i][k].text = PlaceholderSentence

C4_Witness ==
    \E i \in Workers :
        /\ ttsCalls[i] # <<>>
        /\ ~HasText(job[i])
        /\ ttsCalls[i][1].text = PlaceholderSentence

\* C5 as stated: every non-empty speaker_wav_base64 string that is not valid
\* encoded text ends the invocation in an uncaught exception, with no
\* response and no call of pipeline.tts.
C5_MalformedAlwaysRaises ==
    \A i \in Workers :
        (/\ Finished(i)
         /\ HasSpeaker(job[i])
         /\ job[i].input.speaker_wav_base64.kind = "str"
         /\ job[i].input.speaker_wav_base64.s # <<>>
         /\ ~ValidEncodedText(job[i].input.speaker_wav_base64.s)) =>
            /\ pc[i] = "raised"
            /\ response[i] = Unbound
            /\ ttsCalls[i] = <<>>

\* C5 amended: a non-empty speaker_wav_base64 that the lenient decoder
\* rejects (not a string, a non-ASCII character, or alphabet characters
\* ending inside a group that no '=' completes) ends the invocation in an
\* uncaught exception of the decoder, with no response and no call of
\* pipeline.tts; every other non-empty string is decoded and reaches
\* pipeline.tts.
C5_RejectedRaises ==
    \A i \in Workers :
        (Finished(i) /\ ~SpeakerMissing(job[i])) =>
            IF Rejected(job[i].input.speaker_wav_base64)
            THEN /\ pc[i] = "raised"
                 /\ raised[i] \in {"binascii.Error", "ValueError", "TypeError"}
                 /\ response[i] = Unbound
                 /\ ttsCalls[i] = <<>>
            ELSE /\ Len(ttsCalls[i]) = 1
                 /\ raised[i] \in {"none", "TtsError"}

C5_Witness ==
    \E i \in Workers :
        /\ pc[i] = "raised"
        /\ job[i].input.speaker_wav_base64 = Str(<<"Q", "Q", "=">>)
        /\ raised[i] = "binascii.Error"
        /\ response[i] = Unbound

\* C6: the pipeline is constructed once, before the first job is accepted,
\* and stays Ready: whenever the host serves or a job was accepted the
\* construction count is 1 and the pipeline is Ready, and no step leaves
\* Ready.
C6_ConstructedOnce ==
    /\ [](/\ constructions <= 1
          /\ (modpc \in {"line9", "line38", "serving"} \/ accepted > 0 \/ Busy # {}) =>
                (constructions = 1 /\ pipeline = "Ready"))
    /\ [][pipeline = "Ready" => pipeline' = "Ready"]_vars

C6_Witness ==
    /\ accepted = MaxJobs
    /\ constructions = 1
    /\ pipeline = "Ready"
    /\ \E i \in Workers : pc[i] = "raised" /\ raised[i] = "TtsError"

\* C7: pipeline.tts is called at most once per job, exactly once for a job
\* that passed validation and decoding, and a failing call ends the
\* invocation in an uncaught exception with no response.
C7_NoRetry ==
    \A i \in Workers :
        /\ Len(ttsCalls[i]) <= 1
        /\ (pc[i] \in {"line31", "line33"} \/ (Finished(i) /\ speaker_wav_bytes[i] # Unbound))
              => Len(ttsCalls[i]) = 1
        /\ \A k \in 1..Len(ttsCalls[i]) :
              ttsCalls[i][k].result = TtsFailure =>
                  /\ pc[i] = "raised"
                  /\ raised[i] = "TtsError"
                  /\ response[i] = Unbound

C7_Witness ==
    \E i \in Workers :
        /\ pc[i] = "raised"
        /\ Len(ttsCalls[i]) = 1
        /\ ttsCalls[i][1].result = TtsFailure
        /\ response[i] = Unbound

\* C8: an invocation ends either returned, with a mapping whose only key is
\* audio_base64 or whose only key is error, or raised, with no mapping at
\* all; before it ends there is no mapping.
C8_ExactlyOneOutcome ==
    \A i \in Workers :
        /\ pc[i] = "returned" =>
              /\ raised[i] = "none"
              /\ response[i] # Unbound
              /\ DOMAIN response[i] = {"audio_base64"} \/ DOMAIN response[i] = {"error"}
              /\ DOMAIN response[i] = {"audio_base64"} =>
                    response[i].audio_base64 = Str(b2a_base64(ttsCalls[i][1].result.b))
        /\ pc[i] = "raised" => (raised[i] # "none" /\ response[i] = Unbound)
        /\ ~Finished(i) => (response[i] = Unbound /\ raised[i] = "none")

C8_Witness ==
    \E i \in Workers :
        /\ pc[i] = "returned"
        /\ wav_bytes[i] = Bytes(<<>>)
        /\ response[i] = [audio_base64 |-> Str(<<>>)]

\* C9: with invocations interleaved, every local of an invocation and its
\* outcome are determined by its own job and by what pipeline.tts returned
\* to it, and no step changes the job of an invocation in flight.
C9_OwnJobOnly ==
    /\ [](\A i \in Workers :
            /\ job_input[i] # Unbound => job_input[i] = job[i].input
            /\ text[i] # Unbound =>
                  text[i] = (IF HasText(job[i]) THEN job[i].input.text
                             ELSE PlaceholderSentence)
            /\ speaker_wav_base64[i] # Unbound =>
                  speaker_wav_base64[i] = (IF HasSpeaker(job[i])
                                           THEN job[i].input.speaker_wav_base64 ELSE None)
            /\ speaker_wav_bytes[i] # Unbound =>
                  OwnDecode(job[i]) = [ok |-> TRUE, val |-> speaker_wav_bytes[i]]
            /\ \A k \in 1..Len(ttsCalls[i]) :
                  /\ ttsCalls[i][k].text = text[i]
                  /\ OwnDecode(job[i]) = [ok |-> TRUE, val |-> ttsCalls[i][k].speaker_wav]
            /\ wav_bytes[i] # Unbound => wav_bytes[i] = ttsCalls[i][1].result
            /\ wav_base64[i] # Unbound =>
                  wav_base64[i] = Str(b2a_base64(ttsCalls[i][1].result.b))
            /\ (pc[i] = "returned" /\ ~SpeakerMissing(job[i])) =>
                  response[i] = [audio_base64 |-> Str(b2a_base64(ttsCalls[i][1].result.b))])
    /\ [][\A i \in Workers : (pc[i] # "idle" /\ pc'[i] # "idle") => job'[i] = job[i]]_vars

C9_Witness ==
    \E a \in Workers : \E b \in Workers :
        /\ a # b
        /\ pc[a] = "returned" /\ pc[b] = "returned"
        /\ HasSpeaker(job[a]) /\ HasSpeaker(job[b])
        /\ job[a].input.speaker_wav_base64 = Str(<<"Q", "Q", "=", "=">>)
        /\ job[b].input.speaker_wav_base64 = Str(<<"Q", "Q", "Q", "=">>)
        /\ response[a] = [audio_base64 |-> Str(<<"/", "w", "=", "=">>)]
        /\ response[b] = [audio_base64 |-> Str(<<"Q", "Q", "=", "=">>)]

\* C10: every call of pipeline.tts for a job with a text key passes that
\* value unchanged, the empty string included; a value of text never leads
\* to the error response, which is returned only for a missing speaker.
C10_TextPassedUnchanged ==
    \A i \in Workers :
        /\ \A k \in 1..Len(ttsCalls[i]) :
              HasText(job[i]) => ttsCalls[i][k].text = job[i].input.text
        /\ (pc[i] = "returned" /\ ~SpeakerMissing(job[i])) =>
              DOMAIN response[i] = {"audio_base64"}

C10_Witness ==
    \E i \in Workers :
        /\ pc[i] = "returned"
        /\ HasText(job[i]) /\ job[i].input.text = Str(<<>>)
        /\ ttsCalls[i] # <<>>
        /\ ttsCalls[i][1].text = Str(<<>>)
        /\ DOMAIN response[i] = {"audio_base64"}

====
